---- MODULE Spec2Model ----
(***************************************************************************)
(* Quiz Bro: the student dashboard, the teacher dashboard, the top-level    *)
(* page and the auth page, as state machines over the record store and     *)
(* the session provider they call.                                         *)
(*                                                                         *)
(* Time is counted in the unit of the JavaScript Date (milliseconds): a    *)
(* stored timestamp is the instant new Date(string) yields for it, and     *)
(* `now' is the value of new Date() when a component renders.              *)
(* An optional column (string | null) is a sequence: << >> is null and     *)
(* <<t>> is the timestamp t.                                               *)
(***************************************************************************)
EXTENDS Integers, Sequences, FiniteSets, TLC

VARIABLES
    storeQuizzes,      \* rows of the quizzes table
    storeResponses,    \* rows of the responses table
    now,               \* the clock read by new Date()
    sPc,               \* StudentDashboard: position in fetchData
    sQuizzes,          \* StudentDashboard: fetchData's local `quizzes'
    availableQuizzes,  \* StudentDashboard state
    completedQuizzes,  \* StudentDashboard state
    sLoading,          \* StudentDashboard state `loading'
    sToasts,           \* error notifications shown by StudentDashboard
    sQueries,          \* store queries issued by StudentDashboard
    sFailed,           \* which query of fetchData returned an error
    sView,             \* what StudentDashboard rendered last
    tPc,               \* TeacherDashboard: position in fetchQuizzes
    tQuizzes,          \* TeacherDashboard state `quizzes'
    tLoading,          \* TeacherDashboard state `loading'
    tToasts,           \* error notifications shown by TeacherDashboard
    tQueries,          \* store queries issued by TeacherDashboard
    tView,             \* what TeacherDashboard rendered last
    authLoading,       \* useAuth().loading
    user,              \* useAuth().user
    userRole,          \* useAuth().userRole
    view,              \* what Index rendered last
    aPc,               \* AuthPage: the handler that awaits the session provider
    aLoading,          \* AuthPage state `loading'
    error,             \* AuthPage state `error'
    success,           \* AuthPage state `success'
    signupForm,        \* AuthPage state `signupForm': password, confirmPassword
    aLast,             \* the form submitted last
    aSubmits,          \* form submissions so far
    signInCalls,       \* calls of signIn
    signUpCalls        \* calls of signUp

vars == <<storeQuizzes, storeResponses, now,
          sPc, sQuizzes, availableQuizzes, completedQuizzes, sLoading,
          sToasts, sQueries, sFailed, sView,
          tPc, tQuizzes, tLoading, tToasts, tQueries, tView,
          authLoading, user, userRole, view,
          aPc, aLoading, error, success, signupForm, aLast, aSubmits,
          signInCalls, signUpCalls>>

storeVars == <<storeQuizzes, storeResponses>>
studentVars == <<sPc, sQuizzes, availableQuizzes, completedQuizzes, sLoading,
                 sToasts, sQueries, sFailed, sView>>
teacherVars == <<tPc, tQuizzes, tLoading, tToasts, tQueries, tView>>
indexVars == <<authLoading, user, userRole, view>>
authVars == <<aPc, aLoading, error, success, signupForm, aLast, aSubmits,
              signInCalls, signUpCalls>>

----------------------------------------------------------------------------
(* Bounds of the model *)

NumQuizzes == 2        \* quizzes in the store of the lifecycle runs
MaxTime == 2           \* the clock runs over 0..MaxTime
MaxAvgRows == 3        \* responses in the store of the average-score runs
MaxRecentRows == 6     \* responses in the store of the recent-results runs
MaxSubmitted == 1      \* submitted_at values of the recent-results runs
MaxPasswordLen == 6    \* the longest password typed into the signup form
MaxSubmits == 3        \* form submissions on the auth page

(* Program constants *)

RecentLimit == 5       \* completedQuizzes.slice(0, 5)
MinPasswordLen == 6    \* signupForm.password.length < 6

NULL == << >>
Some(t) == <<t>>

Student == "s1"        \* user.id of the signed-in student
OtherStudent == "s2"
Teacher == "t1"        \* user.id of the signed-in teacher
OtherTeacher == "t2"

Min(a, b) == IF a <= b THEN a ELSE b

----------------------------------------------------------------------------
(* The record store client *)

\* r is placed behind every row whose key is at least its own: the rows stay
\* in descending order of `field', equal keys in their arrival order.
InsertDesc(sorted, r, field) ==
    LET k == Cardinality({i \in DOMAIN sorted : sorted[i][field] >= r[field]})
    IN  SubSeq(sorted, 1, k) \o <<r>> \o SubSeq(sorted, k + 1, Len(sorted))

RECURSIVE OrderDesc(_, _)
\* .order(field, { ascending: false })
OrderDesc(rows, field) ==
    IF rows = << >> THEN << >>
    ELSE InsertDesc(OrderDesc(SubSeq(rows, 1, Len(rows) - 1), field),
                    rows[Len(rows)], field)

IsPublished(q) == q.is_published = TRUE

\* a quizzes query that forgets .eq('is_published', true)
PublishedQuizzesQueryAll(rows) == OrderDesc(rows, "created_at")

\* from('quizzes').select('*').eq('is_published', true).order('created_at', desc)
PublishedQuizzesQuery(rows) ==
    OrderDesc(SelectSeq(rows, IsPublished), "created_at")

\* a responses query that forgets .eq('user_id', uid)
ResponsesQueryAnyUser(rows, uid) == OrderDesc(rows, "submitted_at")

\* a responses query that forgets .order('submitted_at', desc)
ResponsesQueryUnordered(rows, uid) ==
    LET Mine(r) == r.user_id = uid
    IN  SelectSeq(rows, Mine)

\* from('responses').select(...).eq('user_id', uid).order('submitted_at', desc)
ResponsesQuery(rows, uid) ==
    LET Mine(r) == r.user_id = uid
    IN  OrderDesc(SelectSeq(rows, Mine), "submitted_at")

\* from('quizzes').select(...).eq('created_by', uid).order('created_at', desc)
OwnQuizzesQuery(rows, uid) ==
    LET Own(q) == q.created_by = uid
    IN  OrderDesc(SelectSeq(rows, Own), "created_at")

----------------------------------------------------------------------------
(* StudentDashboard *)

\* new Date(s) of a stored timestamp
DateOf(s) == s[1]

\* isQuizAvailable with < for <=
isQuizAvailableStrict(quiz, t) ==
    IF quiz.scheduled_for = NULL THEN TRUE
    ELSE DateOf(quiz.scheduled_for) < t

\* isQuizAvailable with its comparison turned round
isQuizAvailableReversed(quiz, t) ==
    IF quiz.scheduled_for = NULL THEN TRUE
    ELSE DateOf(quiz.scheduled_for) >= t

\* isQuizAvailable(quiz), with the value of new Date() as t
isQuizAvailable(quiz, t) ==
    IF quiz.scheduled_for = NULL THEN TRUE
    ELSE DateOf(quiz.scheduled_for) <= t

\* new Set(responses.map(r => r.quiz_id))
attemptedQuizIds(responses) == {responses[i].quiz_id : i \in DOMAIN responses}

\* fetchData without the filter of attempted quizzes
filteredQuizzesKeepAll(qs, responses) == qs

\* quizzes.filter(quiz => !attemptedQuizIds.has(quiz.id))
filteredQuizzes(qs, responses) ==
    LET Unattempted(quiz) == quiz.id \notin attemptedQuizIds(responses)
    IN  SelectSeq(qs, Unattempted)

RECURSIVE SumMarks(_)
\* completedQuizzes.reduce((acc, quiz) => acc + quiz.total_marks, 0)
SumMarks(responses) ==
    IF responses = << >> THEN 0
    ELSE SumMarks(SubSeq(responses, 1, Len(responses) - 1))
         + responses[Len(responses)].total_marks

\* Math.floor for Math.round
FloorDiv(x, n) == x \div n

\* Math.round(x / n) for x >= 0, n > 0: halves round up
RoundDiv(x, n) == (2 * x + n) \div (2 * n)

\* the Average Score card
averageScore(responses) ==
    IF Len(responses) > 0 THEN RoundDiv(SumMarks(responses), Len(responses))
    ELSE 0

\* completedQuizzes.slice(0, 5)
recentResults(responses) == SubSeq(responses, 1, Min(RecentLimit, Len(responses)))

\* one card of the Available Quizzes grid
QuizCard(quiz, t) ==
    LET available == isQuizAvailable(quiz, t)
    IN  [id |-> quiz.id,
         badge |-> IF available THEN "Available" ELSE "Scheduled",
         startDisabled |-> ~available]

\* the component's render
StudentRender(loading, available, completed, t) ==
    IF loading THEN [screen |-> "loading"]
    ELSE [screen |-> "dashboard",
          at |-> t,
          availableCount |-> Len(available),
          completedCount |-> Len(completed),
          averageScore |-> averageScore(completed),
          cards |-> [i \in DOMAIN available |-> QuizCard(available[i], t)],
          recent |-> recentResults(completed)]

\* useEffect(() => { fetchData() }, []): the quizzes query is issued
SMount ==
    /\ sPc = "mounted"
    /\ sPc' = "awaitQuizzes"
    /\ sQueries' = sQueries + 1
    /\ UNCHANGED <<sQuizzes, availableQuizzes, completedQuizzes, sLoading,
                   sToasts, sFailed, sView>>

\* a catch block that issues the query again
SFailRetry(which) ==
    /\ sFailed' = which
    /\ sToasts' = sToasts + 1
    /\ sLoading' = FALSE
    /\ sPc' = "done"
    /\ sQueries' = sQueries + 1
    /\ sView' = StudentRender(FALSE, availableQuizzes, completedQuizzes, now)
    /\ UNCHANGED <<sQuizzes, availableQuizzes, completedQuizzes>>

\* a catch block that still shows the quizzes the first query returned
SFailKeepsQuizzes(which) ==
    /\ sFailed' = which
    /\ sToasts' = sToasts + 1
    /\ sLoading' = FALSE
    /\ sPc' = "done"
    /\ availableQuizzes' = sQuizzes
    /\ sView' = StudentRender(FALSE, availableQuizzes', completedQuizzes, now)
    /\ UNCHANGED <<sQuizzes, completedQuizzes, sQueries>>

\* catch: toast; finally: setLoading(false); then the component renders
SFail(which) ==
    /\ sFailed' = which
    /\ sToasts' = sToasts + 1
    /\ sLoading' = FALSE
    /\ sPc' = "done"
    /\ sView' = StudentRender(FALSE, availableQuizzes, completedQuizzes, now)
    /\ UNCHANGED <<sQuizzes, availableQuizzes, completedQuizzes, sQueries>>

\* the quizzes query returns rows: the responses query is issued
\* (a select that succeeds returns an array, so the `|| []' fallbacks for a null
\* data never run)
SQuizzesOk ==
    /\ sPc = "awaitQuizzes"
    /\ sQuizzes' = PublishedQuizzesQuery(storeQuizzes)
    /\ sPc' = "awaitResponses"
    /\ sQueries' = sQueries + 1
    /\ UNCHANGED <<availableQuizzes, completedQuizzes, sLoading, sToasts,
                   sFailed, sView>>

\* the quizzes query returns an error: throw quizzesError
SQuizzesError ==
    /\ sPc = "awaitQuizzes"
    /\ SFail("quizzes")

\* the responses query returns rows
SResponsesOk ==
    /\ sPc = "awaitResponses"
    /\ LET responses == ResponsesQuery(storeResponses, Student)
       IN  /\ availableQuizzes' = filteredQuizzes(sQuizzes, responses)
           /\ completedQuizzes' = responses
    /\ sLoading' = FALSE
    /\ sPc' = "done"
    /\ sView' = StudentRender(FALSE, availableQuizzes', completedQuizzes', now)
    /\ UNCHANGED <<sQuizzes, sToasts, sQueries, sFailed>>

\* the responses query returns an error: throw responsesError
SResponsesError ==
    /\ sPc = "awaitResponses"
    /\ SFail("responses")

\* the component renders again (its context changed)
SRerender ==
    /\ sPc = "done"
    /\ sView' = StudentRender(sLoading, availableQuizzes, completedQuizzes, now)
    /\ UNCHANGED <<sPc, sQuizzes, availableQuizzes, completedQuizzes, sLoading,
                   sToasts, sQueries, sFailed>>

StudentFetch ==
    SMount \/ SQuizzesOk \/ SQuizzesError \/ SResponsesOk \/ SResponsesError

StudentInit ==
    /\ sPc = "mounted"
    /\ sQuizzes = << >>
    /\ availableQuizzes = << >>
    /\ completedQuizzes = << >>
    /\ sLoading = TRUE
    /\ sToasts = 0
    /\ sQueries = 0
    /\ sFailed = "none"
    /\ sView = StudentRender(TRUE, << >>, << >>, 0)

----------------------------------------------------------------------------
(* TeacherDashboard *)

\* Scheduled Quizzes counting only the published quizzes that have a schedule
quizCountsPublishedScheduled(qs) ==
    LET Pending(q) == q.scheduled_for # NULL /\ q.is_published
    IN  [total |-> Len(qs),
         published |-> Len(SelectSeq(qs, IsPublished)),
         scheduled |-> Len(SelectSeq(qs, Pending))]

\* the three Quick Stats cards: quizzes.length,
\* quizzes.filter(q => q.is_published).length,
\* quizzes.filter(q => q.scheduled_for).length
quizCounts(qs) ==
    LET HasSchedule(q) == q.scheduled_for # NULL
    IN  [total |-> Len(qs),
         published |-> Len(SelectSeq(qs, IsPublished)),
         scheduled |-> Len(SelectSeq(qs, HasSchedule))]

\* the component's render
TeacherRender(loading, qs) ==
    IF loading THEN [screen |-> "loading"]
    ELSE [screen |-> "dashboard", counts |-> quizCounts(qs)]

\* useEffect(() => { fetchQuizzes() }, []): the quizzes query is issued
TMount ==
    /\ tPc = "mounted"
    /\ tPc' = "awaitQuizzes"
    /\ tQueries' = tQueries + 1
    /\ UNCHANGED <<tQuizzes, tLoading, tToasts, tView>>

\* the query returns rows: setQuizzes(data); finally: setLoading(false)
TQuizzesOk ==
    /\ tPc = "awaitQuizzes"
    /\ tQuizzes' = OwnQuizzesQuery(storeQuizzes, Teacher)
    /\ tLoading' = FALSE
    /\ tPc' = "done"
    /\ tView' = TeacherRender(FALSE, tQuizzes')
    /\ UNCHANGED <<tToasts, tQueries>>

\* fetchQuizzes with setLoading(false) in the try block, not in finally
TQuizzesErrorStillLoading ==
    /\ tPc = "awaitQuizzes"
    /\ tToasts' = tToasts + 1
    /\ tPc' = "failed"
    /\ UNCHANGED <<tQuizzes, tQueries, tLoading, tView>>

\* the query returns an error: throw; catch: toast; finally: setLoading(false)
TQuizzesError ==
    /\ tPc = "awaitQuizzes"
    /\ tToasts' = tToasts + 1
    /\ tLoading' = FALSE
    /\ tPc' = "failed"
    /\ tView' = TeacherRender(FALSE, tQuizzes)
    /\ UNCHANGED <<tQuizzes, tQueries>>

TeacherFetch == TMount \/ TQuizzesOk \/ TQuizzesError

TeacherInit ==
    /\ tPc = "mounted"
    /\ tQuizzes = << >>
    /\ tLoading = TRUE
    /\ tToasts = 0
    /\ tQueries = 0
    /\ tView = TeacherRender(TRUE, << >>)

----------------------------------------------------------------------------
(* Index *)

Users == {Student, Teacher}
RoleTags == {"teacher", "student", "admin"}

\* Index without the `if (!user)' branch
IndexRenderByRole(loading, u, role) ==
    IF loading THEN "Loading"
    ELSE IF role = Some("teacher") THEN "TeacherView"
    ELSE IF role = Some("student") THEN "StudentView"
    ELSE "UnknownRole"

\* the component's render: which element Index returns
IndexRender(loading, u, role) ==
    IF loading THEN "Loading"
    ELSE IF u = NULL THEN "AuthPage"
    ELSE IF role = Some("teacher") THEN "TeacherView"
    ELSE IF role = Some("student") THEN "StudentView"
    ELSE "UnknownRole"

\* the session provider publishes a new session
SessionChange ==
    /\ authLoading' \in BOOLEAN
    /\ user' \in {NULL} \cup {Some(u) : u \in Users}
    /\ userRole' \in {NULL} \cup {Some(r) : r \in RoleTags}
    /\ <<authLoading', user', userRole'>> # <<authLoading, user, userRole>>
    /\ view' = [view EXCEPT !.fresh = FALSE]

\* Index renders with the session it reads from useAuth()
IndexRenders ==
    /\ view.fresh = FALSE
    /\ view' = [fresh |-> TRUE, shows |-> IndexRender(authLoading, user, userRole)]
    /\ UNCHANGED <<authLoading, user, userRole>>

IndexInit ==
    /\ authLoading = TRUE
    /\ user = NULL
    /\ userRole = NULL
    /\ view = [fresh |-> TRUE, shows |-> IndexRender(TRUE, NULL, NULL)]

----------------------------------------------------------------------------
(* AuthPage *)

\* a password of n characters c
Pw(n, c) == [i \in 1..n |-> c]
Passwords == {Pw(n, c) : n \in (MinPasswordLen - 1)..MaxPasswordLen, c \in {"a", "b"}}

\* onChange of the signup form's password fields
ASetSignupForm ==
    /\ signupForm' \in [password : Passwords, confirmPassword : Passwords]
    /\ signupForm' # signupForm
    /\ UNCHANGED <<aPc, aLoading, error, success, aLast, aSubmits,
                   signInCalls, signUpCalls>>

\* handleLogin up to its await: setLoading(true), setError(null), signIn(...)
ALoginSubmit ==
    /\ aPc = "idle" /\ ~aLoading
    /\ aSubmits < MaxSubmits
    /\ aSubmits' = aSubmits + 1
    /\ aLast' = "login"
    /\ aLoading' = TRUE
    /\ error' = NULL
    /\ signInCalls' = signInCalls + 1
    /\ aPc' = "awaitSignIn"
    /\ UNCHANGED <<success, signupForm, signUpCalls>>

\* signIn returns an error: setError(error.message), setLoading(false)
ASignInError ==
    /\ aPc = "awaitSignIn"
    /\ error' = Some("Invalid login credentials")
    /\ aLoading' = FALSE
    /\ aPc' = "idle"
    /\ UNCHANGED <<success, signupForm, aLast, aSubmits, signInCalls, signUpCalls>>

\* signIn returns no error: setLoading(false); the session now has a user
ASignInOk ==
    /\ aPc = "awaitSignIn"
    /\ aLoading' = FALSE
    /\ aPc' = "signedIn"
    /\ UNCHANGED <<error, success, signupForm, aLast, aSubmits, signInCalls,
                   signUpCalls>>

\* handleSignup without the check of the password's length
ASignupSubmitNoLengthCheck ==
    /\ aPc = "idle" /\ ~aLoading
    /\ signupForm.password # << >> /\ signupForm.confirmPassword # << >>
    /\ aSubmits < MaxSubmits
    /\ aSubmits' = aSubmits + 1
    /\ aLast' = "signup"
    /\ success' = NULL
    /\ IF signupForm.password # signupForm.confirmPassword
       THEN /\ error' = Some("Passwords do not match")
            /\ aLoading' = FALSE
            /\ UNCHANGED <<aPc, signUpCalls>>
       ELSE /\ error' = NULL
            /\ aLoading' = TRUE
            /\ signUpCalls' = signUpCalls + 1
            /\ aPc' = "awaitSignUp"
    /\ UNCHANGED <<signupForm, signInCalls>>

\* handleSignup up to its return or its await: setLoading(true), setError(null),
\* setSuccess(null), the two checks, signUp(...); the form submits only with its
\* `required' password fields filled in
ASignupSubmit ==
    /\ aPc = "idle" /\ ~aLoading
    /\ signupForm.password # << >> /\ signupForm.confirmPassword # << >>
    /\ aSubmits < MaxSubmits
    /\ aSubmits' = aSubmits + 1
    /\ aLast' = "signup"
    /\ success' = NULL
    /\ IF signupForm.password # signupForm.confirmPassword
       THEN /\ error' = Some("Passwords do not match")
            /\ aLoading' = FALSE
            /\ UNCHANGED <<aPc, signUpCalls>>
       ELSE IF Len(signupForm.password) < MinPasswordLen
       THEN /\ error' = Some("Password must be at least 6 characters")
            /\ aLoading' = FALSE
            /\ UNCHANGED <<aPc, signUpCalls>>
       ELSE /\ error' = NULL
            /\ aLoading' = TRUE
            /\ signUpCalls' = signUpCalls + 1
            /\ aPc' = "awaitSignUp"
    /\ UNCHANGED <<signupForm, signInCalls>>

\* signUp returns an error: setError(error.message), setLoading(false)
ASignUpError ==
    /\ aPc = "awaitSignUp"
    /\ error' = Some("User already registered")
    /\ aLoading' = FALSE
    /\ aPc' = "idle"
    /\ UNCHANGED <<success, signupForm, aLast, aSubmits, signInCalls, signUpCalls>>

\* signUp returns no error: setSuccess(...), setLoading(false)
ASignUpOk ==
    /\ aPc = "awaitSignUp"
    /\ success' = Some("Account created successfully!")
    /\ aLoading' = FALSE
    /\ aPc' = "idle"
    /\ UNCHANGED <<error, signupForm, aLast, aSubmits, signInCalls, signUpCalls>>

AuthInit ==
    /\ aPc = "idle"
    /\ aLoading = FALSE
    /\ error = NULL
    /\ success = NULL
    /\ signupForm = [password |-> << >>, confirmPassword |-> << >>]
    /\ aLast = "none"
    /\ aSubmits = 0
    /\ signInCalls = 0
    /\ signUpCalls = 0

----------------------------------------------------------------------------
(* The contents of the store *)

SchedVals == {NULL} \cup {Some(t) : t \in 0..MaxTime}
MarkVals == {0, 1, 70, 80, 90}

QuizRow(i, pub, sch, own) ==
    [id |-> i, is_published |-> pub, scheduled_for |-> sch,
     created_at |-> i, created_by |-> own]

ResponseRow(i, quiz, uid, marks, at) ==
    [id |-> i, quiz_id |-> quiz, user_id |-> uid, total_marks |-> marks,
     submitted_at |-> at]

\* at most one Response per (quiz-id, user-id) pair
UniquePerPair(rows) ==
    \A i, j \in DOMAIN rows :
        (rows[i].quiz_id = rows[j].quiz_id /\ rows[i].user_id = rows[j].user_id)
            => i = j

\* the rows of the responses table: one per pair of `pairs', in table order
RECURSIVE PairRows(_, _)
PairRows(pairs, n) ==
    IF pairs = {} THEN << >>
    ELSE LET p == CHOOSE x \in pairs : TRUE
         IN  <<ResponseRow(n, p[1], p[2], 80, 0)>> \o PairRows(pairs \ {p}, n + 1)

EmptyStore ==
    /\ storeQuizzes = << >>
    /\ storeResponses = << >>

Tick ==
    /\ now < MaxTime
    /\ now' = now + 1
    /\ UNCHANGED <<storeVars, studentVars, teacherVars, indexVars, authVars>>

----------------------------------------------------------------------------
(* The student dashboard over every store of NumQuizzes quizzes *)

Init ==
    /\ \E pub \in [1..NumQuizzes -> BOOLEAN], sch \in [1..NumQuizzes -> SchedVals] :
         storeQuizzes = [i \in 1..NumQuizzes |-> QuizRow(i, pub[i], sch[i], Teacher)]
    /\ \E pairs \in SUBSET ((1..NumQuizzes) \X {Student, OtherStudent}) :
         storeResponses = PairRows(pairs, 1)
    /\ UniquePerPair(storeResponses)
    /\ now = 0
    /\ StudentInit /\ TeacherInit /\ IndexInit /\ AuthInit

StudentStep ==
    /\ StudentFetch \/ SRerender
    /\ UNCHANGED <<storeVars, now, teacherVars, indexVars, authVars>>

Next == StudentStep \/ Tick

Spec == Init /\ [][Next]_vars

----------------------------------------------------------------------------
(* The student dashboard while the clock keeps running *)

InitClock ==
    /\ \E pub \in [1..NumQuizzes -> BOOLEAN], sch \in [1..NumQuizzes -> SchedVals] :
         storeQuizzes = [i \in 1..NumQuizzes |-> QuizRow(i, pub[i], sch[i], Teacher)]
    /\ storeResponses = << >>
    /\ now = 0
    /\ StudentInit /\ TeacherInit /\ IndexInit /\ AuthInit

SpecClock == InitClock /\ [][Next]_vars /\ WF_vars(Tick)

----------------------------------------------------------------------------
(* The teacher dashboard over every store of NumQuizzes quizzes, at any time *)

InitTeacher ==
    /\ \E pub \in [1..NumQuizzes -> BOOLEAN], sch \in [1..NumQuizzes -> SchedVals],
          own \in [1..NumQuizzes -> {Teacher, OtherTeacher}] :
         storeQuizzes = [i \in 1..NumQuizzes |-> QuizRow(i, pub[i], sch[i], own[i])]
    /\ storeResponses = << >>
    /\ now \in 0..MaxTime
    /\ StudentInit /\ TeacherInit /\ IndexInit /\ AuthInit

TeacherStep ==
    /\ TeacherFetch
    /\ UNCHANGED <<storeVars, now, studentVars, indexVars, authVars>>

SpecTeacher == InitTeacher /\ [][TeacherStep]_vars

----------------------------------------------------------------------------
(* Both dashboards, each query completing eventually *)

InitDash ==
    /\ \E pub \in [1..NumQuizzes -> BOOLEAN] :
         storeQuizzes = [i \in 1..NumQuizzes |-> QuizRow(i, pub[i], NULL, Teacher)]
    /\ \E pairs \in SUBSET ((1..NumQuizzes) \X {Student}) :
         storeResponses = PairRows(pairs, 1)
    /\ UniquePerPair(storeResponses)
    /\ now = 0
    /\ StudentInit /\ TeacherInit /\ IndexInit /\ AuthInit

StudentFetchStep ==
    /\ StudentFetch
    /\ UNCHANGED <<storeVars, now, teacherVars, indexVars, authVars>>

NextDash == StudentFetchStep \/ TeacherStep

SpecDash ==
    InitDash /\ [][NextDash]_vars
        /\ WF_vars(StudentFetchStep) /\ WF_vars(TeacherStep)

----------------------------------------------------------------------------
(* The student dashboard over responses of every score *)

InitAvg ==
    /\ storeQuizzes = [i \in 1..MaxAvgRows |-> QuizRow(i, TRUE, NULL, Teacher)]
    /\ \E n \in 0..MaxAvgRows : \E marks \in [1..n -> MarkVals] :
         storeResponses = [i \in 1..n |-> ResponseRow(i, i, Student, marks[i], 0)]
    /\ UniquePerPair(storeResponses)
    /\ now = 0
    /\ StudentInit /\ TeacherInit /\ IndexInit /\ AuthInit

SpecAvg == InitAvg /\ [][StudentFetchStep]_vars

----------------------------------------------------------------------------
(* The student dashboard over responses in every table order *)

InitRecent ==
    /\ storeQuizzes = [i \in 1..MaxRecentRows |-> QuizRow(i, TRUE, NULL, Teacher)]
    /\ \E n \in 0..MaxRecentRows : \E at \in [1..n -> 0..MaxSubmitted] :
         storeResponses = [i \in 1..n |-> ResponseRow(i, i, Student, 80, at[i])]
    /\ UniquePerPair(storeResponses)
    /\ now = 0
    /\ StudentInit /\ TeacherInit /\ IndexInit /\ AuthInit

SpecRecent == InitRecent /\ [][StudentFetchStep]_vars

----------------------------------------------------------------------------
(* The top-level page over every session *)

InitIndex ==
    /\ EmptyStore
    /\ now = 0
    /\ StudentInit /\ TeacherInit /\ IndexInit /\ AuthInit

IndexStep ==
    /\ SessionChange \/ IndexRenders
    /\ UNCHANGED <<storeVars, now, studentVars, teacherVars, authVars>>

SpecIndex == InitIndex /\ [][IndexStep]_vars

----------------------------------------------------------------------------
(* The auth page over every sequence of submissions *)

InitAuth ==
    /\ EmptyStore
    /\ now = 0
    /\ StudentInit /\ TeacherInit /\ IndexInit /\ AuthInit

AuthStep ==
    /\ \/ ASetSignupForm
       \/ ALoginSubmit \/ ASignInError \/ ASignInOk
       \/ ASignupSubmit \/ ASignUpError \/ ASignUpOk
    /\ UNCHANGED <<storeVars, now, studentVars, teacherVars, indexVars>>

SpecAuth == InitAuth /\ [][AuthStep]_vars

----------------------------------------------------------------------------
(* What the claims speak of *)

StoreQuizSet == {storeQuizzes[i] : i \in DOMAIN storeQuizzes}
StoreResponseSet == {storeResponses[i] : i \in DOMAIN storeResponses}
StudentResponses == {r \in StoreResponseSet : r.user_id = Student}
AttemptedByStudent == {r.quiz_id : r \in StudentResponses}
FetchSucceeded == sPc = "done" /\ sFailed = "none"
ListedIds == {availableQuizzes[i].id : i \in DOMAIN availableQuizzes}
Cards == IF sView.screen = "dashboard" THEN sView.cards ELSE << >>
\* the quizzes whose Start Quiz control is enabled on the screen
StartEnabled == {Cards[i].id : i \in {j \in DOMAIN Cards : ~Cards[j].startDisabled}}

\* the class of a quiz on the student dashboard at time t: a quiz the quizzes
\* query does not return is not published; one it returns is available or scheduled
availability(quiz, t) ==
    IF PublishedQuizzesQuery(<<quiz>>) = << >> THEN "NotPublished"
    ELSE IF isQuizAvailable(quiz, t) THEN "Available"
    ELSE "ScheduledFuture"

\* the rule of the specification
AvailabilityRule(quiz, t) ==
    IF quiz.is_published = FALSE THEN "NotPublished"
    ELSE IF quiz.scheduled_for # NULL /\ quiz.scheduled_for[1] > t
         THEN "ScheduledFuture"
    ELSE "Available"

\* C1: every quiz is classified NotPublished when its publication flag is false,
\* otherwise ScheduledFuture when it has a scheduled-for time later than now,
\* otherwise Available (a schedule equal to now, or none, is Available); and the
\* badge of every card on the screen is that class at the time of the render.
C1_Availability ==
    /\ \A q \in StoreQuizSet : \A t \in 0..MaxTime :
         availability(q, t) = AvailabilityRule(q, t)
    /\ \A q \in StoreQuizSet :
         /\ (q.is_published /\ q.scheduled_for = Some(now))
                => availability(q, now) = "Available"
         /\ (q.is_published /\ q.scheduled_for = NULL)
                => \A t \in 0..MaxTime : availability(q, t) = "Available"
    /\ \A i \in DOMAIN Cards : \A q \in StoreQuizSet :
         q.id = Cards[i].id =>
            (Cards[i].badge = "Available"
                <=> AvailabilityRule(q, sView.at) = "Available")

\* a card rendered at the very time its quiz is scheduled for, and shown
\* Available, beside a quiz that is scheduled for later
C1_Witness ==
    /\ FetchSucceeded
    /\ \E i \in DOMAIN Cards : \E q \in StoreQuizSet :
         /\ q.id = Cards[i].id
         /\ q.scheduled_for = Some(sView.at)
         /\ Cards[i].badge = "Available"
    /\ \E q \in StoreQuizSet : availability(q, now) = "ScheduledFuture"

\* C2: after a successful fetch a quiz is in the available list if and only if it
\* is published and the student has no response to it, whatever its schedule;
\* no quiz is listed twice.
C2_VisibleIff ==
    FetchSucceeded =>
        /\ \A q \in StoreQuizSet :
             q.id \in ListedIds
                <=> (q.is_published /\ q.id \notin AttemptedByStudent)
        /\ ListedIds \subseteq {q.id : q \in StoreQuizSet}
        /\ Len(availableQuizzes) = Cardinality(ListedIds)

\* an unpublished quiz whose schedule has passed is not listed, and a published
\* quiz scheduled for later is
C2_Witness ==
    /\ FetchSucceeded
    /\ \E q \in StoreQuizSet :
         /\ ~q.is_published
         /\ q.scheduled_for # NULL /\ q.scheduled_for[1] <= now
         /\ q.id \notin ListedIds
    /\ \E q \in StoreQuizSet :
         /\ q.is_published
         /\ q.scheduled_for # NULL /\ q.scheduled_for[1] > now
         /\ q.id \in ListedIds

\* C3: Start Quiz is enabled only for a published quiz the student has not
\* attempted whose schedule is null or not after now; after a successful fetch
\* it is enabled for exactly the visible quizzes that are Available at the time
\* of the render.
C3_Attemptable ==
    /\ \A q \in StoreQuizSet :
         q.id \in StartEnabled =>
            /\ q.is_published
            /\ q.id \notin AttemptedByStudent
            /\ (q.scheduled_for = NULL \/ q.scheduled_for[1] <= now)
    /\ StartEnabled \subseteq {q.id : q \in StoreQuizSet}
    /\ FetchSucceeded =>
         \A q \in StoreQuizSet :
            q.id \in StartEnabled
                <=> /\ q.is_published /\ q.id \notin AttemptedByStudent
                    /\ AvailabilityRule(q, sView.at) = "Available"

\* one quiz can be started while another, attempted and with its schedule passed,
\* cannot, and a third kind, scheduled for later, is listed with Start disabled
C3_Witness ==
    /\ FetchSucceeded
    /\ \E q \in StoreQuizSet :
         /\ q.id \in AttemptedByStudent /\ q.is_published
         /\ AvailabilityRule(q, now) = "Available"
         /\ q.id \notin StartEnabled
    /\ StartEnabled # {}

OwnQuizzes == {q \in StoreQuizSet : q.created_by = Teacher}

\* C5: the teacher's counts are total = the number of their quizzes, published =
\* the number of those with the publication flag set, scheduled = the number of
\* those with a scheduled-for time, be it before or after now; {0,0,0} for none.
C5_QuizCounts ==
    /\ quizCounts(<< >>) = [total |-> 0, published |-> 0, scheduled |-> 0]
    /\ tPc = "done" =>
         /\ tView.screen = "dashboard"
         /\ tView.counts.total = Cardinality(OwnQuizzes)
         /\ tView.counts.published =
                Cardinality({q \in OwnQuizzes : q.is_published})
         /\ tView.counts.scheduled =
                Cardinality({q \in OwnQuizzes : q.scheduled_for # NULL})
         /\ (OwnQuizzes = {}) =>
                tView.counts = [total |-> 0, published |-> 0, scheduled |-> 0]

\* a draft whose schedule has passed and a quiz scheduled for later both count
C5_Witness ==
    /\ tPc = "done"
    /\ \E q \in OwnQuizzes :
         ~q.is_published /\ q.scheduled_for # NULL /\ q.scheduled_for[1] < now
    /\ \E q \in OwnQuizzes : q.scheduled_for # NULL /\ q.scheduled_for[1] > now
    /\ tView.counts.scheduled = 2

MarksOf(responses) == [i \in DOMAIN responses |-> responses[i].total_marks]
RECURSIVE SumOfSet(_)
SumOfSet(rs) ==
    IF rs = {} THEN 0
    ELSE LET r == CHOOSE x \in rs : TRUE IN r.total_marks + SumOfSet(rs \ {r})

\* C6: the average score shown is the integer nearest to the mean of the
\* total-marks of the completed responses, and 0 when there are none; the scores
\* 80, 90, 70 give 80.
C6_AverageScore ==
    FetchSucceeded =>
        LET n == Cardinality(StudentResponses)
            total == SumOfSet(StudentResponses)
            avg == sView.averageScore
        IN  /\ sView.completedCount = n
            /\ n = 0 => avg = 0
            /\ n > 0 => /\ 2 * (avg * n - total) <= n
                        /\ 2 * (total - avg * n) <= n
            /\ MarksOf(completedQuizzes) = <<80, 90, 70>> => avg = 80

\* the scores 80, 90, 70 average to 80
C6_Witness ==
    /\ FetchSucceeded
    /\ MarksOf(completedQuizzes) = <<80, 90, 70>>
    /\ sView.averageScore = 80

\* C7: the recent results are min(5, n) of the student's n responses, in
\* descending order of submitted-at, each at least as recent as every response
\* left out; the completed list still holds all n responses.
C7_RecentResults ==
    FetchSucceeded =>
        LET recent == sView.recent
            shown == {recent[i] : i \in DOMAIN recent}
        IN  /\ Len(recent) = Min(RecentLimit, Cardinality(StudentResponses))
            /\ Cardinality(shown) = Len(recent)
            /\ shown \subseteq StudentResponses
            /\ \A i, j \in DOMAIN recent :
                 i < j => recent[i].submitted_at >= recent[j].submitted_at
            /\ \A r \in shown : \A o \in StudentResponses \ shown :
                 r.submitted_at >= o.submitted_at
            /\ Len(completedQuizzes) = Cardinality(StudentResponses)
            /\ {completedQuizzes[i] : i \in DOMAIN completedQuizzes}
                    = StudentResponses

\* more than five responses, stored oldest first: five are shown, newest first
C7_Witness ==
    /\ FetchSucceeded
    /\ Len(storeResponses) = RecentLimit + 1
    /\ storeResponses[1].submitted_at < storeResponses[Len(storeResponses)].submitted_at
    /\ Len(sView.recent) = RecentLimit
    /\ sView.recent[1].submitted_at > sView.recent[RecentLimit].submitted_at
    /\ Len(completedQuizzes) = RecentLimit + 1

\* C8: a fetch whose query returns an error shows one error notification and
\* issues no query after the failed one; a fetch without an error shows none.
C8_ErrorOnce ==
    /\ (sPc = "done" /\ sFailed = "quizzes") => (sToasts = 1 /\ sQueries = 1)
    /\ (sPc = "done" /\ sFailed = "responses") => (sToasts = 1 /\ sQueries = 2)
    /\ (sPc = "done" /\ sFailed = "none") => (sToasts = 0 /\ sQueries = 2)
    /\ sPc # "done" => (sToasts = 0 /\ sFailed = "none")
    /\ tPc = "failed" => (tToasts = 1 /\ tQueries = 1)
    /\ tPc = "done" => (tToasts = 0 /\ tQueries = 1)
    /\ tPc \in {"mounted", "awaitQuizzes"} => tToasts = 0

\* the student's responses query and the teacher's quizzes query have both failed
C8_Witness ==
    /\ sPc = "done" /\ sFailed = "responses" /\ sToasts = 1
    /\ tPc = "failed" /\ tToasts = 1

\* what the claim as written says Index shows
IndexByRoleTag ==
    IF authLoading THEN "Loading"
    ELSE IF userRole = Some("teacher") THEN "TeacherView"
    ELSE IF userRole = Some("student") THEN "StudentView"
    ELSE "UnknownRole"

\* C9 as written: Index shows one of TeacherView, StudentView, UnknownRole and
\* Loading, the one its role tag and loading flag determine.
C9_Original ==
    view.fresh =>
        /\ view.shows \in {"TeacherView", "StudentView", "UnknownRole", "Loading"}
        /\ view.shows = IndexByRoleTag

\* C9, amended: Index shows one of Loading, AuthPage, TeacherView, StudentView
\* and UnknownRole: Loading while the session loads; otherwise AuthPage when no
\* user is present, whatever the role tag; otherwise the view of the role tag.
C9_ViewSelection ==
    view.fresh =>
        /\ view.shows \in {"Loading", "AuthPage", "TeacherView", "StudentView",
                           "UnknownRole"}
        /\ authLoading => view.shows = "Loading"
        /\ (~authLoading /\ user = NULL) => view.shows = "AuthPage"
        /\ (~authLoading /\ user # NULL) => view.shows = IndexByRoleTag

\* no user is present and the role tag is teacher: the auth page is shown
C9_Witness ==
    /\ view.fresh
    /\ ~authLoading /\ user = NULL /\ userRole = Some("teacher")
    /\ view.shows = "AuthPage"

\* C10: each dashboard starts loading; it is loading until its fetch completes
\* and not loading once it has, with or without an error; once not loading it
\* never loads again; and it eventually stops loading.
C10_Loading ==
    /\ (sLoading = TRUE /\ tLoading = TRUE)
    /\ [](sLoading <=> sPc # "done")
    /\ [](tLoading <=> tPc \notin {"done", "failed"})
    /\ [][(~sLoading => ~sLoading') /\ (~tLoading => ~tLoading')]_vars
    /\ <>(~sLoading)
    /\ <>(~tLoading)

\* the student's fetch has failed, the teacher's has succeeded, neither is loading
C10_Witness ==
    /\ sPc = "done" /\ sFailed = "quizzes" /\ ~sLoading
    /\ tPc = "done" /\ ~tLoading
    /\ sView.screen = "dashboard" /\ tView.screen = "dashboard"

\* C11: the available list and the completed list change in one step, the one
\* in which the responses query succeeds after the quizzes query has; a step in
\* which a query fails leaves both as they were, and after a failed fetch both
\* are still empty although the quizzes query may have returned rows.
C11_ListsTogether ==
    /\ [](sFailed # "none" => (availableQuizzes = << >> /\ completedQuizzes = << >>))
    /\ [](sPc # "done" => (availableQuizzes = << >> /\ completedQuizzes = << >>))
    /\ [][/\ sFailed' # "none" => UNCHANGED <<availableQuizzes, completedQuizzes>>
          /\ <<availableQuizzes, completedQuizzes>>'
                # <<availableQuizzes, completedQuizzes>>
             => /\ sPc = "awaitResponses" /\ sPc' = "done" /\ sFailed' = "none"
                /\ ListedIds' = {q.id : q \in {x \in StoreQuizSet : x.is_published}}
                                    \ AttemptedByStudent
                /\ {completedQuizzes'[i] : i \in DOMAIN completedQuizzes'}
                        = StudentResponses]_vars

\* the quizzes query returned rows, the responses query failed, nothing is listed
C11_Witness ==
    /\ sPc = "done" /\ sFailed = "responses"
    /\ sQuizzes # << >>
    /\ \E q \in StoreQuizSet : q.is_published /\ q.id \notin AttemptedByStudent
    /\ availableQuizzes = << >> /\ completedQuizzes = << >>
    /\ sView.screen = "dashboard" /\ sView.availableCount = 0

AllPublishedAvailable ==
    \A q \in StoreQuizSet : q.is_published => availability(q, now) = "Available"

\* C12: as the clock advances a quiz that is Available stays Available, and a
\* card shown as Available is never shown as Scheduled again; a published quiz is
\* Available whenever now has reached its scheduled-for time, and with the clock
\* running every published quiz is Available in the end.
C12_Monotone ==
    /\ [](\A q \in StoreQuizSet :
            (q.is_published /\ q.scheduled_for # NULL /\ q.scheduled_for[1] <= now)
                => availability(q, now) = "Available")
    /\ [][/\ now' >= now
          /\ \A q \in StoreQuizSet :
                availability(q, now) = "Available"
                    => availability(q, now') = "Available"
          /\ \A i \in DOMAIN Cards : \A j \in DOMAIN Cards' :
                (Cards[i].id = Cards'[j].id /\ Cards[i].badge = "Available")
                    => Cards'[j].badge = "Available"]_vars
    /\ <>[]AllPublishedAvailable

\* a quiz scheduled for later was shown as Scheduled; the clock has reached its
\* time and the card, rendered again, shows it as Available
C12_Witness ==
    /\ FetchSucceeded
    /\ now > 0
    /\ \E i \in DOMAIN Cards : \E q \in StoreQuizSet :
         /\ q.id = Cards[i].id
         /\ q.scheduled_for = Some(now)
         /\ sView.at = now
         /\ Cards[i].badge = "Available"

\* C13: on the auth page the error message and the success message are never
\* both set.
C13_NeverBoth == ~(error # NULL /\ success # NULL)

InvalidSignup ==
    \/ signupForm.password # signupForm.confirmPassword
    \/ Len(signupForm.password) < MinPasswordLen

\* C14: a signup submission whose password differs from its confirmation, or is
\* shorter than 6 characters, calls signUp not at all, sets the error message of
\* the failed check, leaves no success message and leaves loading false.
C14_InvalidSignup ==
    [][(aSubmits' # aSubmits /\ aLast' = "signup" /\ InvalidSignup)
        => /\ signUpCalls' = signUpCalls
           /\ aPc' = "idle"
           /\ error' # NULL
           /\ error' = IF signupForm.password # signupForm.confirmPassword
                       THEN Some("Passwords do not match")
                       ELSE Some("Password must be at least 6 characters")
           /\ success' = NULL
           /\ aLoading' = FALSE]_vars

\* an account was created; then a too short password, typed twice, was submitted:
\* the success message is gone and signUp was not called again
C14_Witness ==
    /\ aLast = "signup" /\ aSubmits = 2 /\ signUpCalls = 1
    /\ signupForm.password = signupForm.confirmPassword
    /\ Len(signupForm.password) < MinPasswordLen
    /\ error = Some("Password must be at least 6 characters")
    /\ success = NULL
    /\ aLoading = FALSE

====
